---- MODULE Spec2Model ----
(***************************************************************************)
(* Sales record store (database.py), the reporting pass of the analytics  *)
(* page (analytics.py) and the delete flow of the data-entry page          *)
(* (data_entry.py).                                                        *)
(*                                                                         *)
(* Representation.                                                         *)
(*   text      a sequence of code points (32 = space, 65 = "A",            *)
(*             88 = "X", 108 = "l", 120 = "x"); Python's str comparison    *)
(*             is the lexicographic order of these sequences               *)
(*   date      <<year, month, day>>; '%Y-%m-%d' strings compare like       *)
(*             these tuples                                                *)
(*   amount    an integer number of currency units                         *)
(*   quantity  argument of add_sale_record: a number of HALF units, so     *)
(*             that a fractional argument (0.5, 1.5) can be passed;        *)
(*             stored quantity: whole units                                *)
(*   ratio     [kind, num, den]: a finite quotient in lowest terms, or     *)
(*             the IEEE results of a division by zero (nan, inf, -inf)     *)
(***************************************************************************)
EXTENDS Integers, Sequences, FiniteSets, TLC

(***************************************************************************)
(* Bounds                                                                  *)
(***************************************************************************)
MaxInserts == 2
MaxRows == 2
MaxExtraGroups == 1

(***************************************************************************)
(* Generic helpers                                                         *)
(***************************************************************************)
Abs(n) == IF n < 0 THEN -n ELSE n

RECURSIVE Gcd(_, _)
Gcd(a, b) == IF b = 0 THEN a ELSE Gcd(b, a % b)

SetMax(S) == CHOOSE m \in S : \A x \in S : x <= m

\* lexicographic order on sequences of integers (str / tuple comparison)
RECURSIVE LexLess(_, _)
LexLess(a, b) ==
    IF b = <<>> THEN FALSE
    ELSE IF a = <<>> THEN TRUE
    ELSE IF Head(a) < Head(b) THEN TRUE
    ELSE IF Head(a) > Head(b) THEN FALSE
    ELSE LexLess(Tail(a), Tail(b))

LexLeq(a, b) == a = b \/ LexLess(a, b)

(***************************************************************************)
(* Python conversions used by add_sale_record                              *)
(***************************************************************************)
IsSpace(c) == c \in {9, 10, 11, 12, 13, 32}

RECURSIVE LStrip(_)
LStrip(s) == IF s # <<>> /\ IsSpace(Head(s)) THEN LStrip(Tail(s)) ELSE s

RECURSIVE RStrip(_)
RStrip(s) ==
    IF s # <<>> /\ IsSpace(s[Len(s)]) THEN RStrip(SubSeq(s, 1, Len(s) - 1)) ELSE s

\* str.strip()
Strip(s) == RStrip(LStrip(s))

\* `not s` for a str
Falsy(s) == Len(s) = 0

\* int(quantity): truncation toward zero; the argument is in half units
IntOfHalves(q2) == IF q2 >= 0 THEN q2 \div 2 ELSE -((-q2) \div 2)

(***************************************************************************)
(* State                                                                   *)
(***************************************************************************)
VARIABLES
    table,             \* rows of the sales table (database.py:29-39)
    seq,               \* AUTOINCREMENT high-water mark of the sales table
    now,               \* CURRENT_TIMESTAMP in seconds; at most one INSERT a second
    result,            \* return value of the last store call
    date_range,        \* st.session_state.date_range
    selected_product,  \* st.session_state.selected_product
    time_period,       \* "Analysis Period" select box
    min_sales,         \* "Minimum Sales Amount" input
    min_profit,        \* "Minimum Profit" input
    outcome,           \* how the last run of the analytics script ended
    df,                \* the Filtered View of the last run
    kpi,               \* the KPI cards
    trend_data,        \* analytics.py:263-298
    product_sales,     \* analytics.py:325-331
    customer_sales,    \* analytics.py:354-359
    profit_analysis,   \* analytics.py:384-392
    buttons,           \* delete-section buttons the data-entry page shows
    record_id_input,   \* "Enter Record ID to delete" number input
    notice,            \* what the delete section of the last run wrote
    delete_record_id   \* st.session_state.delete_record_id, 0 for None

storeVars == <<table, seq, now, result>>

pageVars ==
    <<date_range, selected_product, time_period, min_sales, min_profit,
      outcome, df, kpi, trend_data, product_sales, customer_sales,
      profit_analysis>>

entryVars == <<buttons, record_id_input, notice, delete_record_id>>

vars == <<storeVars, pageVars, entryVars>>

(***************************************************************************)
(* The sales table and its constraints (init_database)                     *)
(***************************************************************************)
Columns ==
    {"id", "order_date", "product", "customer", "sales", "profit",
     "quantity", "created_at"}

Row(id, order_date, product, customer, sales, profit, quantity, created_at) ==
    [id |-> id, order_date |-> order_date, product |-> product,
     customer |-> customer, sales |-> sales, profit |-> profit,
     quantity |-> quantity, created_at |-> created_at]

\* a table created without the CHECK constraint
chk_profit_absent(row) == TRUE

\* CONSTRAINT chk_profit CHECK (profit <= sales)
chk_profit(row) == row.profit <= row.sales

Ids(rows) == {r.id : r \in rows}

\* a plain INTEGER PRIMARY KEY: one more than the largest rowid now in the
\* table
NextRowId_rowid(rows, s) == SetMax({0} \cup Ids(rows)) + 1

\* AUTOINCREMENT: one more than the largest rowid ever inserted, and than
\* the largest rowid now in the table
NextRowId(rows, s) == SetMax({s} \cup Ids(rows)) + 1

Ret(op, ok, msg) == [op |-> op, ok |-> ok, msg |-> msg]

init_database ==
    /\ table = {}
    /\ seq = 0
    /\ now = 0
    /\ result = Ret("none", TRUE, "")

(***************************************************************************)
(* add_sale_record                                                         *)
(***************************************************************************)
\* the row bound to the INSERT statement (database.py:69-76)
InsertedRow(id, order_date, product, customer, sales, profit, quantity, ts) ==
    Row(id, order_date, Strip(product), Strip(customer), sales, profit,
        IntOfHalves(quantity), ts)

\* a validation that forgets the quantity
Validate_no_quantity(product, customer, sales, profit, quantity) ==
    IF Falsy(product) \/ Falsy(customer)
    THEN "Product and Customer are required"
    ELSE IF profit > sales
    THEN "Profit cannot be greater than sales amount"
    ELSE ""

\* the validation of database.py:56-63: "" when the arguments pass
Validate(product, customer, sales, profit, quantity) ==
    IF Falsy(product) \/ Falsy(customer)
    THEN "Product and Customer are required"
    ELSE IF profit > sales
    THEN "Profit cannot be greater than sales amount"
    ELSE IF quantity <= 0
    THEN "Quantity must be greater than 0"
    ELSE ""

\* dbError: the connection or the statement raises sqlite3.Error
add_sale_record(order_date, product, customer, sales, profit, quantity, dbError) ==
    LET reason == Validate(product, customer, sales, profit, quantity)
        id == NextRowId(table, seq)
        row == InsertedRow(id, order_date, product, customer, sales, profit,
                           quantity, now)
    IN  /\ IF reason # ""
           THEN /\ result' = Ret("add", FALSE, reason)
                /\ UNCHANGED <<table, seq, now>>
           ELSE IF dbError
           THEN /\ result' = Ret("add", FALSE, "Database error")
                /\ UNCHANGED <<table, seq, now>>
           ELSE IF ~chk_profit(row)
           THEN /\ result' = Ret("add", FALSE, "Database error: CHECK constraint failed")
                /\ UNCHANGED <<table, seq, now>>
           ELSE /\ table' = table \cup {row}
                /\ seq' = id
                /\ now' = now + 1
                /\ result' = Ret("add", TRUE, "added successfully")
        /\ UNCHANGED pageVars

(***************************************************************************)
(* delete_sale_record                                                      *)
(***************************************************************************)
\* a delete that returns True whatever the statement removed
delete_sale_record_always_true(record_id, dbError) ==
    LET hit == {r \in table : r.id = record_id}
    IN  /\ IF dbError
           THEN /\ result' = Ret("delete", FALSE, "Error deleting record")
                /\ UNCHANGED table
           ELSE /\ table' = table \ hit
                /\ result' = Ret("delete", TRUE, "")
        /\ UNCHANGED <<seq, now, pageVars>>

\* record_id is a whole number, which int() leaves as it is; dbError: the
\* connection or the statement raises, and the handler returns False
delete_sale_record(record_id, dbError) ==
    LET hit == {r \in table : r.id = record_id}
    IN  /\ IF dbError
           THEN /\ result' = Ret("delete", FALSE, "Error deleting record")
                /\ UNCHANGED table
           ELSE /\ table' = table \ hit
                /\ result' = Ret("delete", hit # {}, "")
        /\ UNCHANGED <<seq, now, pageVars>>

(***************************************************************************)
(* update_sale_record                                                      *)
(***************************************************************************)
\* UPDATE sales SET k = ? ... : the row after the assignment
UpdatedRow(row, updates) ==
    [c \in Columns |-> IF c \in DOMAIN updates THEN updates[c] ELSE row[c]]

\* the statement compiles: at least one assignment, every name a column
StatementOk(updates) == DOMAIN updates # {} /\ DOMAIN updates \subseteq Columns

UpdatedTable(rows, record_id, updates) ==
    {IF r.id = record_id THEN UpdatedRow(r, updates) ELSE r : r \in rows}

\* the exception the UPDATE raises, "" when it runs to the commit
UpdateError(rows, record_id, updates, dbError) ==
    IF dbError THEN "database error"
    ELSE IF ~StatementOk(updates) THEN "syntax error or no such column"
    ELSE IF \E r \in rows : r.id = record_id /\ ~chk_profit(UpdatedRow(r, updates))
    THEN "CHECK constraint failed"
    \* id INTEGER PRIMARY KEY: the rows keep distinct ids
    ELSE IF Cardinality(Ids(UpdatedTable(rows, record_id, updates))) # Cardinality(rows)
    THEN "UNIQUE constraint failed"
    ELSE ""

update_sale_record(record_id, updates, dbError) ==
    LET error == UpdateError(table, record_id, updates, dbError)
    IN  /\ IF error # ""
           THEN /\ result' = Ret("update", FALSE, error)
                /\ UNCHANGED table
           ELSE /\ table' = UpdatedTable(table, record_id, updates)
                /\ result' = Ret("update", TRUE, "")
        /\ UNCHANGED <<seq, now, pageVars>>

(***************************************************************************)
(* The pages before their first run (analytics.py:61-64,                   *)
(* data_entry.py:61-66)                                                    *)
(***************************************************************************)
All == <<65, 108, 108>>

NoRows == <<>>

NoKpi ==
    [total_sales |-> 0, total_profit |-> 0, total_orders |-> 0,
     avg_order_value |-> [kind |-> "num", num |-> 0, den |-> 1],
     profit_margin |-> [kind |-> "num", num |-> 0, den |-> 1],
     avg_profit_per_order |-> [kind |-> "num", num |-> 0, den |-> 1]]

PageInit ==
    /\ date_range = <<>>
    /\ selected_product = All
    /\ time_period = "Monthly"
    /\ min_sales = 0
    /\ min_profit = 0
    /\ outcome = "not_run"
    /\ df = NoRows
    /\ kpi = NoKpi
    /\ trend_data = NoRows
    /\ product_sales = NoRows
    /\ customer_sales = NoRows
    /\ profit_analysis = NoRows
    /\ buttons = {}
    /\ record_id_input = 1
    /\ notice = "none"
    /\ delete_record_id = 0

(***************************************************************************)
(* Specification of the record store: any sequence of store calls          *)
(***************************************************************************)
\* arguments of the calls
OrderDates == {<<2024, 1, 1>>}

\* "", " ", " x"
ProductInputs == {<<>>, <<32>>, <<32, 120>>}

\* "", "x"
CustomerInputs == {<<>>, <<120>>}

AmountInputs == {-1, 1}

\* -1, 0, 0.5 and 1 units
QuantityInputs == {-2, 0, 1, 2}

RecordIds == 1 .. MaxInserts

UpdateInputs ==
    {<<>>} \cup {"discount" :> 0}
    \cup {"sales" :> -1} \cup {"profit" :> 1}
    \cup {"quantity" :> 0}
    \cup {"product" :> <<>>}

Init == init_database /\ PageInit

\* a failure of the database is drawn only where the call reaches it
AddSale ==
    \E d \in OrderDates, p \in ProductInputs, c \in CustomerInputs,
       s \in AmountInputs, pr \in AmountInputs, q \in QuantityInputs :
        \E dbError \in IF Validate(p, c, s, pr, q) = "" THEN BOOLEAN ELSE {FALSE} :
            /\ NextRowId(table, seq) <= MaxInserts
            /\ add_sale_record(d, p, c, s, pr, q, dbError)
            /\ UNCHANGED entryVars

DeleteSale ==
    /\ \E id \in RecordIds, dbError \in BOOLEAN : delete_sale_record(id, dbError)
    /\ UNCHANGED entryVars

UpdateSale ==
    \E id \in RecordIds, u \in UpdateInputs :
        \E dbError \in IF UpdateError(table, id, u, FALSE) = "" THEN BOOLEAN ELSE {FALSE} :
            update_sale_record(id, u, dbError) /\ UNCHANGED entryVars

Next == AddSale \/ DeleteSale \/ UpdateSale

Spec == Init /\ [][Next]_vars

(***************************************************************************)
(* Calendar (datetime / pandas .dt accessors)                              *)
(***************************************************************************)
IsLeap(y) == (y % 4 = 0 /\ y % 100 # 0) \/ y % 400 = 0

DaysInMonth(y, m) ==
    IF m = 2 THEN (IF IsLeap(y) THEN 29 ELSE 28)
    ELSE IF m \in {4, 6, 9, 11} THEN 30 ELSE 31

RECURSIVE DaysBeforeMonth(_, _)
DaysBeforeMonth(y, m) ==
    IF m = 1 THEN 0 ELSE DaysBeforeMonth(y, m - 1) + DaysInMonth(y, m - 1)

DayOfYear(d) == DaysBeforeMonth(d[1], d[2]) + d[3]

DaysBeforeYear(y) ==
    (y - 1) * 365 + (y - 1) \div 4 - (y - 1) \div 100 + (y - 1) \div 400

\* date.toordinal()
ToOrdinal(d) == DaysBeforeYear(d[1]) + DayOfYear(d)

\* date.isoweekday(): Monday = 1 .. Sunday = 7
IsoWeekday(d) == ((ToOrdinal(d) + 6) % 7) + 1

\* number of ISO weeks of a year: 53 when it has a Thursday on 1 January or
\* on 31 December
IsoWeeksInYear(y) ==
    IF IsoWeekday(<<y, 1, 1>>) = 4 \/ IsoWeekday(<<y, 12, 31>>) = 4 THEN 53 ELSE 52

\* .dt.isocalendar().week
IsoWeek(d) ==
    LET w == (DayOfYear(d) - IsoWeekday(d) + 10) \div 7
    IN  IF w < 1 THEN IsoWeeksInYear(d[1] - 1)
        ELSE IF w > IsoWeeksInYear(d[1]) THEN 1
        ELSE w

\* .dt.quarter
Quarter(d) == (d[2] - 1) \div 3 + 1

TimePeriods == {"Daily", "Weekly", "Monthly", "Quarterly", "Yearly"}

\* a week column that keeps the year beside the week number
PeriodKey_year_week(period, r) ==
    IF period = "Daily" THEN r.order_date
    ELSE IF period = "Weekly" THEN <<r.order_date[1], IsoWeek(r.order_date)>>
    ELSE IF period = "Monthly" THEN <<r.order_date[1], r.order_date[2]>>
    ELSE IF period = "Quarterly" THEN <<Quarter(r.order_date)>>
    ELSE <<r.order_date[1]>>

\* the value of the period column of a record (analytics.py:237-261);
\* keys are sequences of integers, which sort like the strings and numbers
\* they stand for
PeriodKey(period, r) ==
    IF period = "Daily" THEN r.order_date
    ELSE IF period = "Weekly" THEN <<IsoWeek(r.order_date)>>
    ELSE IF period = "Monthly" THEN <<r.order_date[1], r.order_date[2]>>
    ELSE IF period = "Quarterly" THEN <<Quarter(r.order_date)>>
    ELSE <<r.order_date[1]>>

(***************************************************************************)
(* Data frames: sequences of rows                                          *)
(***************************************************************************)
RECURSIVE SumField(_, _)
SumField(frame, f) ==
    IF frame = <<>> THEN 0 ELSE frame[1][f] + SumField(Tail(frame), f)

RECURSIVE SortKeys(_)
SortKeys(S) ==
    IF S = {} THEN <<>>
    ELSE LET m == CHOOSE x \in S : \A y \in S : LexLeq(x, y)
         IN  <<m>> \o SortKeys(S \ {m})

RECURSIVE SortedFetch(_)
\* ORDER BY order_date DESC, created_at DESC; rows that tie come in rowid order
SortedFetch(rows) ==
    IF rows = {} THEN <<>>
    ELSE LET first ==
                 CHOOSE r \in rows : \A o \in rows :
                     \/ LexLess(o.order_date, r.order_date)
                     \/ /\ o.order_date = r.order_date
                        /\ \/ o.created_at < r.created_at
                           \/ o.created_at = r.created_at /\ r.id <= o.id
         IN  <<first>> \o SortedFetch(rows \ {first})

\* get_all_sales: the rows in order, or an empty frame when the read fails
get_all_sales(rows, dbError) == IF dbError THEN <<>> ELSE SortedFetch(rows)

(***************************************************************************)
(* Ratios (float division of pandas and of numpy scalars)                  *)
(***************************************************************************)
Num(n, d) == [kind |-> "num", num |-> n, den |-> d]

Zero == Num(0, 1)

NaN == [kind |-> "nan", num |-> 0, den |-> 0]

Inf == [kind |-> "inf", num |-> 1, den |-> 0]

NegInf == [kind |-> "inf", num |-> -1, den |-> 0]

\* a / b for b # 0, in lowest terms with a positive denominator
Quotient(a, b) ==
    LET g == Gcd(Abs(a), Abs(b))
        sign == IF b < 0 THEN -1 ELSE 1
    IN  Num(sign * (a \div g), sign * (b \div g))

\* element-wise a / b of two columns: division by zero gives nan or +-inf
Divide(a, b) ==
    IF b # 0 THEN Quotient(a, b)
    ELSE IF a = 0 THEN NaN
    ELSE IF a > 0 THEN Inf
    ELSE NegInf

\* `a / b if b > 0 else 0` (analytics.py:186-188)
GuardedDivide(a, b) == IF b > 0 THEN Divide(a, b) ELSE Zero

(***************************************************************************)
(* Filter Engine (analytics.py:157-171)                                    *)
(***************************************************************************)
InRange(r, range) ==
    LexLeq(range[1], r.order_date) /\ LexLeq(r.order_date, range[2])

\* the filters with profit > min_profit in place of >=
ApplyFilters_strict(frame, range, selector, minSales, minProfit) ==
    LET byDate ==
            IF Len(range) = 2
            THEN SelectSeq(frame, LAMBDA r : InRange(r, range))
            ELSE frame
        byProduct ==
            IF selector # All
            THEN SelectSeq(byDate, LAMBDA r : r.product = selector)
            ELSE byDate
        bySales == SelectSeq(byProduct, LAMBDA r : r.sales >= minSales)
    IN  SelectSeq(bySales, LAMBDA r : r.profit > minProfit)

ApplyFilters(frame, range, selector, minSales, minProfit) ==
    LET byDate ==
            IF Len(range) = 2
            THEN SelectSeq(frame, LAMBDA r : InRange(r, range))
            ELSE frame
        byProduct ==
            IF selector # All
            THEN SelectSeq(byDate, LAMBDA r : r.product = selector)
            ELSE byDate
        bySales == SelectSeq(byProduct, LAMBDA r : r.sales >= minSales)
    IN  SelectSeq(bySales, LAMBDA r : r.profit >= minProfit)

(***************************************************************************)
(* Aggregator: df.groupby(key).agg(sum / count).reset_index()              *)
(***************************************************************************)
\* the value of the grouping column `by` in a record: the product, the
\* customer, or the period column of a granularity
KeyOf(by, r) ==
    IF by = "product" THEN r.product
    ELSE IF by = "customer" THEN r.customer
    ELSE PeriodKey(by, r)

\* the rows of a group, the first one lost
Members_drop_first(frame, by, k) ==
    Tail(SelectSeq(frame, LAMBDA r : KeyOf(by, r) = k))

Members(frame, by, k) == SelectSeq(frame, LAMBDA r : KeyOf(by, r) = k)

KeysOf(frame, by) == {KeyOf(by, frame[i]) : i \in 1 .. Len(frame)}

\* the groups of df.groupby(key): one per key present, in ascending key order
GroupBy(frame, by) ==
    LET keys == SortKeys(KeysOf(frame, by))
    IN  [i \in 1 .. Len(keys) |->
            [key |-> keys[i], members |-> Members(frame, by, keys[i])]]

(***************************************************************************)
(* Ranking: DataFrame.nlargest(n, 'sales'), keep = 'first'                 *)
(***************************************************************************)
TopN == 10

\* position of row i in the descending stable order of the frame
Rank(frame, i) ==
    Cardinality({j \in 1 .. Len(frame) :
        \/ frame[j].sales > frame[i].sales
        \/ frame[j].sales = frame[i].sales /\ j < i}) + 1

\* the first n rows of the frame, whatever their sales
head(frame, n) ==
    LET m == IF Len(frame) < n THEN Len(frame) ELSE n
    IN  [k \in 1 .. m |-> frame[k]]

nlargest(frame, n) ==
    LET m == IF Len(frame) < n THEN Len(frame) ELSE n
    IN  [k \in 1 .. m |-> frame[CHOOSE i \in 1 .. Len(frame) : Rank(frame, i) = k]]

(***************************************************************************)
(* The tables of the page                                                  *)
(***************************************************************************)
\* a monthly key that forgets the year, as the week and quarter keys do
TrendData_month_only(view, period) ==
    LET byPeriod == GroupBy(view, period)
        groups ==
            IF period = "Monthly"
            THEN [i \in 1 .. Len(byPeriod) |->
                     [key |-> <<byPeriod[i].key[2]>>, members |-> byPeriod[i].members]]
            ELSE byPeriod
    IN  [i \in 1 .. Len(groups) |->
            LET g == groups[i].members
            IN  [key |-> groups[i].key,
                 sales |-> SumField(g, "sales"),
                 profit |-> SumField(g, "profit"),
                 quantity |-> SumField(g, "quantity"),
                 transactions |-> Len(g),
                 profit_margin |->
                     Divide(SumField(g, "profit") * 100, SumField(g, "sales"))]]

\* analytics.py:263-269 and 298
TrendData(view, period) ==
    LET groups == GroupBy(view, period)
    IN  [i \in 1 .. Len(groups) |->
            LET g == groups[i].members
            IN  [key |-> groups[i].key,
                 sales |-> SumField(g, "sales"),
                 profit |-> SumField(g, "profit"),
                 quantity |-> SumField(g, "quantity"),
                 transactions |-> Len(g),
                 profit_margin |->
                     Divide(SumField(g, "profit") * 100, SumField(g, "sales"))]]

\* df.groupby('product').agg(sales, profit, quantity: sum)
ProductTotals(view) ==
    LET groups == GroupBy(view, "product")
    IN  [i \in 1 .. Len(groups) |->
            LET g == groups[i].members
            IN  [key |-> groups[i].key,
                 sales |-> SumField(g, "sales"),
                 profit |-> SumField(g, "profit"),
                 quantity |-> SumField(g, "quantity")]]

\* analytics.py:325-331
ProductSales(view) ==
    LET top == nlargest(ProductTotals(view), TopN)
    IN  [i \in 1 .. Len(top) |->
            [key |-> top[i].key, sales |-> top[i].sales, profit |-> top[i].profit,
             quantity |-> top[i].quantity,
             profit_margin |-> Divide(top[i].profit * 100, top[i].sales)]]

\* df.groupby('customer').agg(sales, profit: sum, id: count)
CustomerTotals(view) ==
    LET groups == GroupBy(view, "customer")
    IN  [i \in 1 .. Len(groups) |->
            LET g == groups[i].members
            IN  [key |-> groups[i].key,
                 sales |-> SumField(g, "sales"),
                 profit |-> SumField(g, "profit"),
                 transactions |-> Len(g)]]

\* analytics.py:354-359
CustomerSales(view) == nlargest(CustomerTotals(view), TopN)

\* analytics.py:384-392
ProfitAnalysis(view) ==
    LET rows == ProductTotals(view)
    IN  [i \in 1 .. Len(rows) |->
            [key |-> rows[i].key, sales |-> rows[i].sales, profit |-> rows[i].profit,
             quantity |-> rows[i].quantity,
             profit_margin |-> Divide(rows[i].profit * 100, rows[i].sales),
             avg_price |-> Divide(rows[i].sales, rows[i].quantity),
             profit_per_unit |-> Divide(rows[i].profit, rows[i].quantity)]]

\* analytics.py:183-188
Kpis(frame) ==
    LET total_sales == SumField(frame, "sales")
        total_profit == SumField(frame, "profit")
        total_orders == Len(frame)
    IN  [total_sales |-> total_sales,
         total_profit |-> total_profit,
         total_orders |-> total_orders,
         avg_order_value |-> GuardedDivide(total_sales, total_orders),
         profit_margin |-> GuardedDivide(total_profit * 100, total_sales),
         avg_profit_per_order |-> GuardedDivide(total_profit, total_orders)]

(***************************************************************************)
(* One run of the analytics script (analytics.py:73-522)                   *)
(***************************************************************************)
Products(frame) == {frame[i].product : i \in 1 .. Len(frame)}

Dates(frame) == {frame[i].order_date : i \in 1 .. Len(frame)}

MinDate(frame) == CHOOSE d \in Dates(frame) : \A o \in Dates(frame) : LexLeq(d, o)

MaxDate(frame) == CHOOSE d \in Dates(frame) : \A o \in Dates(frame) : LexLeq(o, d)

\* st.stop() before the charts: nothing of an earlier run stays on the page
Stopped(why) ==
    /\ outcome' = why
    /\ kpi' = NoKpi
    /\ trend_data' = NoRows
    /\ product_sales' = NoRows
    /\ customer_sales' = NoRows
    /\ profit_analysis' = NoRows

\* the widgets hold range, selector, period, minSales and minProfit
Render(range, selector, period, minSales, minProfit, dbError) ==
    LET df_all == get_all_sales(table, dbError)
        view == ApplyFilters(df_all, range, selector, minSales, minProfit)
    IN  /\ IF df_all = <<>>
           THEN /\ Stopped("no_data")
                /\ df' = NoRows
                /\ UNCHANGED <<date_range, selected_product, time_period,
                               min_sales, min_profit>>
           ELSE /\ date_range' = range
                /\ selected_product' = selector
                /\ time_period' = period
                /\ min_sales' = minSales
                /\ min_profit' = minProfit
                /\ df' = view
                /\ IF view = <<>>
                   THEN Stopped("no_match")
                   ELSE /\ kpi' = Kpis(view)
                        /\ trend_data' = TrendData(view, period)
                        /\ product_sales' = ProductSales(view)
                        /\ customer_sales' = CustomerSales(view)
                        /\ profit_analysis' = ProfitAnalysis(view)
                        \* analytics.py:445 reads .dt of the order_date column,
                        \* which line 261 has turned into strings
                        /\ outcome' = IF period = "Daily" THEN "raised" ELSE "rendered"
        /\ UNCHANGED <<storeVars, entryVars>>

(***************************************************************************)
(* Specification of the analytics page over small stores                   *)
(***************************************************************************)
SampleDates == <<<<2024, 1, 1>>, <<2024, 2, 1>>, <<2025, 1, 1>>>>

\* "All", "all"
SampleProducts == <<All, <<97, 108, 108>>>>

\* "a", "b"
SampleCustomers == <<<<97>>, <<98>>>>

\* <<sales, profit, quantity>>
SampleAmounts == <<<<0, 0, 1>>, <<2, 1, 1>>>>

SampleCount ==
    Len(SampleDates) * Len(SampleProducts) * Len(SampleCustomers) * Len(SampleAmounts)

\* the c-th sample record, stored under the given id
SampleRow(id, c) ==
    LET d == SampleDates[(c % Len(SampleDates)) + 1]
        c1 == c \div Len(SampleDates)
        p == SampleProducts[(c1 % Len(SampleProducts)) + 1]
        c2 == c1 \div Len(SampleProducts)
        cu == SampleCustomers[(c2 % Len(SampleCustomers)) + 1]
        a == SampleAmounts[(c2 \div Len(SampleCustomers)) + 1]
    IN  Row(id, d, p, cu, a[1], a[2], a[3], 0)

\* stores of up to MaxRows records, inserted within one second
SampleTables ==
    UNION {{{SampleRow(i, f[i]) : i \in 1 .. n} :
               f \in {g \in [1 .. n -> 0 .. SampleCount - 1] :
                         \A i \in 1 .. n - 1 : g[i] <= g[i + 1]}} :
           n \in 0 .. MaxRows}

StoreHolds(rows) ==
    /\ table = rows
    /\ seq = Cardinality(rows)
    /\ now = 0
    /\ result = Ret("none", TRUE, "")

Widget == <<87, 105, 100, 103, 101, 116>>

Gadget == <<71, 97, 100, 103, 101, 116>>

\* the three records of the worked example of the specification
ScenarioTable ==
    {Row(1, <<2024, 1, 1>>, Widget, <<97>>, 100, 20, 2, 0),
     Row(2, <<2024, 1, 2>>, Widget, <<97>>, 200, 50, 3, 0),
     Row(3, <<2024, 2, 1>>, Gadget, <<98>>, 150, 0, 1, 0)}

InitAnalytics ==
    (\E rows \in SampleTables \cup {ScenarioTable} : StoreHolds(rows)) /\ PageInit

\* the ranges st.date_input can return: one date while the user is still
\* picking, else start <= end within [min_date, max_date]
DateRangeChoices(frame, days) ==
    LET pick == {d \in days : LexLeq(MinDate(frame), d) /\ LexLeq(d, MaxDate(frame))}
    IN  {<<MinDate(frame)>>} \cup
        {w \in {<<a, b>> : a \in pick, b \in pick} : LexLeq(w[1], w[2])}

\* ["All"] + sorted(df_all['product'].unique())
ProductChoices(frame) == {All} \cup Products(frame)

MinSalesChoices == {0, 2}

MinProfitChoices == {0, 1}

\* A run reads only the table and its widgets, never what an earlier run
\* left on the page, so a behaviour renders the page once.
RenderPage ==
    /\ outcome = "not_run"
    /\ \E dbError \in BOOLEAN :
        LET df_all == get_all_sales(table, dbError)
        IN  IF df_all = <<>>
            THEN Render(<<>>, All, "Monthly", 0, 0, dbError)
            ELSE \E range \in DateRangeChoices(df_all, Dates(df_all)),
                    selector \in ProductChoices(df_all),
                    period \in TimePeriods,
                    minSales \in MinSalesChoices,
                    minProfit \in MinProfitChoices :
                     Render(range, selector, period, minSales, minProfit, dbError)

NextAnalytics == RenderPage

SpecAnalytics == InitAnalytics /\ [][NextAnalytics]_vars

(***************************************************************************)
(* Specification of the rankings: more products and customers than TopN    *)
(***************************************************************************)
GroupCount == TopN + MaxExtraGroups

\* "a", "b", "c", ...
Label(i) == <<96 + i>>

\* record i has its own product and customer; sales are 1 or 2
RankingTables ==
    {{Row(i, <<2024, 1, 1>>, Label(i), Label(GroupCount + 1 - i), f[i], 1, 1, 0) :
          i \in 1 .. GroupCount} :
     f \in [1 .. GroupCount -> {1, 2}]}

InitRanking == (\E rows \in RankingTables : StoreHolds(rows)) /\ PageInit

RenderRanking ==
    /\ outcome = "not_run"
    /\ \E minSales \in MinSalesChoices :
        Render(<<MinDate(SortedFetch(table))>>, All, "Monthly", minSales, 0, FALSE)

NextRanking == RenderRanking

SpecRanking == InitRanking /\ [][NextRanking]_vars

(***************************************************************************)
(* Properties of the record store                                          *)
(***************************************************************************)
ProfitAtMostSales == \A r \in table : r.profit <= r.sales

\* a call that would store profit > sales fails and changes nothing
BreakingCallFails ==
    /\ result'.op = "add" =>
         \A d \in OrderDates, p \in ProductInputs, c \in CustomerInputs,
            s \in AmountInputs, pr \in AmountInputs, q \in QuantityInputs,
            e \in BOOLEAN :
             (pr > s /\ add_sale_record(d, p, c, s, pr, q, e))
                 => (~result'.ok /\ table' = table)
    /\ result'.op = "update" =>
         \A id \in RecordIds, u \in UpdateInputs, e \in BOOLEAN :
             ( /\ StatementOk(u)
               /\ \E r \in table :
                      r.id = id /\ UpdatedRow(r, u).profit > UpdatedRow(r, u).sales
               /\ update_sale_record(id, u, e) )
                 => (~result'.ok /\ table' = table)

\* C6: after any sequence of add_sale_record, delete_sale_record and
\* update_sale_record calls every stored record has profit <= sales, and a
\* call that would break this fails and leaves the store unchanged.
C6_ProfitNeverExceedsSales == []ProfitAtMostSales /\ [][BreakingCallFails]_vars

\* an UPDATE was refused by the CHECK constraint while records are stored
C6_Witness ==
    /\ result = Ret("update", FALSE, "CHECK constraint failed")
    /\ table # {}

InvalidArguments(product, customer, sales, profit, quantity) ==
    \/ Len(product) = 0
    \/ Len(customer) = 0
    \/ profit > sales
    \/ quantity <= 0

\* C7: add_sale_record called with an empty product or customer, with
\* profit > sales, or with quantity <= 0 returns (False, reason) and leaves
\* the stored records exactly as they were.
C7_InvalidAddRejected ==
    [][result'.op = "add" =>
       \A d \in OrderDates, p \in ProductInputs, c \in CustomerInputs,
          s \in AmountInputs, pr \in AmountInputs, q \in QuantityInputs,
          e \in BOOLEAN :
           (InvalidArguments(p, c, s, pr, q) /\ add_sale_record(d, p, c, s, pr, q, e))
               => /\ result'.op = "add"
                  /\ ~result'.ok
                  /\ result'.msg # ""
                  /\ table' = table
                  /\ Cardinality(table') = Cardinality(table)]_vars

\* a quantity of 0 or less was refused while records are stored
C7_Witness ==
    /\ result = Ret("add", FALSE, "Quantity must be greater than 0")
    /\ table # {}

Trimmed(s) == s = <<>> \/ (~IsSpace(Head(s)) /\ ~IsSpace(s[Len(s)]))

Blank(s) == \A i \in 1 .. Len(s) : IsSpace(s[i])

\* C8: every record add_sale_record stores has a trimmed, non-empty product
\* and customer; a call whose product or customer is only whitespace is
\* rejected and stores nothing.
C8_StoredNamesNonEmpty ==
    [][result'.op = "add" =>
       \A d \in OrderDates, p \in ProductInputs, c \in CustomerInputs,
          s \in AmountInputs, pr \in AmountInputs, q \in QuantityInputs,
          e \in BOOLEAN :
           add_sale_record(d, p, c, s, pr, q, e)
               => /\ \A r \in table' \ table :
                        /\ Trimmed(r.product) /\ r.product # <<>>
                        /\ Trimmed(r.customer) /\ r.customer # <<>>
                  /\ (Blank(p) \/ Blank(c)) => (~result'.ok /\ table' = table)]_vars

\* C9: after any sequence of add_sale_record, delete_sale_record and
\* update_sale_record calls every stored record has a quantity >= 1.
C9_QuantityAtLeastOne == \A r \in table : r.quantity >= 1

\* C10: every record add_sale_record stores has sales >= 0 and profit >= 0;
\* a call with a negative sales or profit amount is rejected.
C10_AmountsNonNegative ==
    [][result'.op = "add" =>
       \A d \in OrderDates, p \in ProductInputs, c \in CustomerInputs,
          s \in AmountInputs, pr \in AmountInputs, q \in QuantityInputs,
          e \in BOOLEAN :
           add_sale_record(d, p, c, s, pr, q, e)
               => /\ \A r \in table' \ table : r.sales >= 0 /\ r.profit >= 0
                  /\ (s < 0 \/ pr < 0) => (~result'.ok /\ table' = table)]_vars

(***************************************************************************)
(* Properties of the analytics page                                        *)
(***************************************************************************)
\* the run got past the empty-data check, so the filters were applied
Filtered == outcome \in {"no_match", "rendered", "raised"}

\* the run computed the KPIs and the tables
Computed == outcome \in {"rendered", "raised"}

RowSet(frame) == {frame[i] : i \in 1 .. Len(frame)}

Matching ==
    {r \in table :
        /\ \/ Len(date_range) # 2
           \/ /\ LexLeq(date_range[1], r.order_date)
              /\ LexLeq(r.order_date, date_range[2])
        /\ selected_product = All \/ r.product = selected_product
        /\ r.sales >= min_sales
        /\ r.profit >= min_profit}

\* C1: the Filtered View is exactly the set of stored records inside the
\* date range (when one is supplied), of the selected product (unless the
\* selector is "All"), with sales >= min_sales and profit >= min_profit.
C1_FilteredViewExact ==
    Filtered => (RowSet(df) = Matching /\ Len(df) = Cardinality(Matching))

\* every filter is set, one record passes them and one does not
C1_Witness ==
    /\ outcome = "rendered"
    /\ Len(date_range) = 2
    /\ selected_product # All
    /\ min_sales > 0
    /\ min_profit > 0
    /\ Len(df) = 1
    /\ Cardinality(table) = 2

SameTotals(rows, f) == SumField(rows, f) = SumField(df, f)

\* C2: for the time buckets of the selected granularity, the products and
\* the customers, the sums of sales, of profit and of quantity over the
\* Aggregate Rows equal the sums over the records of the Filtered View.
C2_SumsPreserved ==
    Computed =>
        /\ SameTotals(trend_data, "sales")
        /\ SameTotals(trend_data, "profit")
        /\ SameTotals(trend_data, "quantity")
        /\ SameTotals(profit_analysis, "sales")
        /\ SameTotals(profit_analysis, "profit")
        /\ SameTotals(profit_analysis, "quantity")
        /\ Len(customer_sales) < TopN =>
               /\ SameTotals(customer_sales, "sales")
               /\ SameTotals(customer_sales, "profit")

\* two records with non-zero sales fall into one time bucket
C2_Witness ==
    /\ outcome = "rendered"
    /\ Len(df) = 2
    /\ Len(trend_data) = 1
    /\ trend_data[1].sales = 4
    /\ Len(profit_analysis) = 2

KeySet(rows) == {rows[i].key : i \in 1 .. Len(rows)}

\* the key of a record of the Filtered View
ViewKey(by, r) ==
    IF by = "product" THEN r.product
    ELSE IF by = "customer" THEN r.customer
    ELSE PeriodKey(time_period, r)

CountWith(by, k) == Cardinality({j \in 1 .. Len(df) : ViewKey(by, df[j]) = k})

OneRowPerKey(rows, by) ==
    /\ KeySet(rows) = {ViewKey(by, df[j]) : j \in 1 .. Len(df)}
    /\ Len(rows) = Cardinality(KeySet(rows))

\* C3: grouping gives exactly one Aggregate Row per key value present in
\* the Filtered View, none for an absent key, and a row's transaction count
\* is the number of records with its key.
C3_OneRowPerKey ==
    Computed =>
        /\ OneRowPerKey(trend_data, "period")
        /\ \A i \in 1 .. Len(trend_data) :
               trend_data[i].transactions = CountWith("period", trend_data[i].key)
        /\ OneRowPerKey(profit_analysis, "product")
        /\ Len(customer_sales) < TopN =>
               /\ OneRowPerKey(customer_sales, "customer")
               /\ \A i \in 1 .. Len(customer_sales) :
                      customer_sales[i].transactions =
                          CountWith("customer", customer_sales[i].key)

\* the worked example: two records of January 2024 and one of February 2024
C3_Witness ==
    /\ outcome = "rendered"
    /\ time_period = "Monthly"
    /\ table = ScenarioTable
    /\ Len(df) = 3
    /\ Len(trend_data) = 2
    /\ trend_data[1].key = <<2024, 1>> /\ trend_data[1].transactions = 2
    /\ trend_data[1].sales = 300 /\ trend_data[1].profit = 70
    /\ trend_data[2].key = <<2024, 2>> /\ trend_data[2].transactions = 1
    /\ trend_data[2].sales = 150 /\ trend_data[2].profit = 0

GroupSales(by, k) ==
    SumField(SelectSeq(df, LAMBDA r : ViewKey(by, r) = k), "sales")

Least(a, b) == IF a < b THEN a ELSE b

\* rows is a top-TopN selection of the groups of the Filtered View by Key
TopOfGroups(rows, by) ==
    LET groups == {ViewKey(by, df[j]) : j \in 1 .. Len(df)}
    IN  /\ Len(rows) = Least(TopN, Cardinality(groups))
        /\ Len(rows) <= TopN
        /\ Cardinality(KeySet(rows)) = Len(rows)
        /\ \A i \in 1 .. Len(rows) :
               /\ rows[i].key \in groups
               /\ rows[i].sales = GroupSales(by, rows[i].key)
               /\ \A k \in groups \ KeySet(rows) : rows[i].sales >= GroupSales(by, k)
        /\ \A i, j \in 1 .. Len(rows) :
               (i < j /\ rows[i].sales = rows[j].sales)
                   => LexLess(rows[i].key, rows[j].key)

\* C5: the top-10 product ranking and the top-10 customer ranking return
\* min(10, number of groups) rows, each with summed sales >= those of every
\* group left out, and rows with equal sales keep their group order.
C5_TopTenRanking ==
    Computed =>
        /\ TopOfGroups(product_sales, "product")
        /\ TopOfGroups(customer_sales, "customer")

\* more than ten products: one is left out, and rows of the ranking tie
C5_Witness ==
    /\ outcome = "rendered"
    /\ Len(profit_analysis) > TopN
    /\ Len(product_sales) = TopN
    /\ Len(customer_sales) = TopN
    /\ product_sales[1].sales > product_sales[TopN].sales
    /\ product_sales[1].sales = product_sales[2].sales

(***************************************************************************)
(* Properties of delete_sale_record and of the ids                         *)
(***************************************************************************)
Stored(record_id) == {r \in table : r.id = record_id}

\* the call returned False and the store is as it was
DeleteRefused == ~result'.ok /\ table' = table

\* the call returned True and removed the one record of that id: the others
\* are as they were, get_all_sales returns exactly them, and no stored record
\* has the id any more, so that the next delete of it is a delete of an id
\* not in the store
DeleteRemoved(record_id) ==
    /\ result'.ok
    /\ Cardinality(Stored(record_id)) = 1
    /\ table' = table \ Stored(record_id)
    /\ Cardinality(table') = Cardinality(table) - 1
    /\ RowSet(get_all_sales(table', FALSE)) = table'
    /\ Len(get_all_sales(table', FALSE)) = Cardinality(table')
    /\ \A i \in 1 .. Len(get_all_sales(table', FALSE)) :
           get_all_sales(table', FALSE)[i].id # record_id

\* C11 as stated: delete_sale_record(id) on an id not in the store returns
\* False and leaves the store unchanged; on an id in the store it returns
\* True and removes exactly that record, after which get_all_sales does not
\* contain it and a second delete of the id returns False.
C11_DeleteContract ==
    [][result'.op = "delete" =>
       \A id \in RecordIds, e \in BOOLEAN :
           delete_sale_record(id, e)
               => IF Stored(id) = {} THEN DeleteRefused ELSE DeleteRemoved(id)]_vars

\* C11, amended: the above holds of every call whose DELETE statement runs;
\* a call in which the database raises returns False and leaves the store
\* unchanged, whether the id is stored or not.
C11_DeleteContractWhenExecuted ==
    [][result'.op = "delete" =>
       \A id \in RecordIds, e \in BOOLEAN :
           delete_sale_record(id, e)
               => IF e \/ Stored(id) = {} THEN DeleteRefused ELSE DeleteRemoved(id)]_vars

\* a delete returned True and another record is still stored
C11_Witness ==
    /\ result = Ret("delete", TRUE, "")
    /\ table # {}

\* the ids in the store are distinct and none is above the last id assigned
IdsAssigned ==
    /\ Cardinality(Ids(table)) = Cardinality(table)
    /\ \A r \in table : r.id <= seq

\* a successful insert stores one new record whose id is above the last id
\* assigned and above every stored id, and that id becomes the last id
\* assigned; no other call assigns an id or moves the last id assigned
AssignsFreshId ==
    IF result'.op = "add" /\ result'.ok
    THEN \E r \in table' :
             /\ r \notin table
             /\ table' = table \cup {r}
             /\ r.id > seq
             /\ \A o \in table : r.id > o.id
             /\ seq' = r.id
    ELSE /\ seq' = seq
         /\ Ids(table') \subseteq Ids(table)

\* C12: across any interleaving of successful add_sale_record and
\* delete_sale_record calls every id an insert assigns is strictly greater
\* than every id assigned earlier: no two stored records share an id and the
\* id of a deleted record is never assigned again.
C12_IdsStrictlyIncrease == []IdsAssigned /\ [][AssignsFreshId]_vars

\* an insert succeeded after a record with a smaller id was deleted
C12_Witness ==
    /\ result.op = "add"
    /\ result.ok
    /\ table # {}
    /\ Cardinality(table) < seq

(***************************************************************************)
(* Specification of the store under updates of any column, id and          *)
(* created_at included (update_sale_record takes the column names from its *)
(* keyword arguments)                                                      *)
(***************************************************************************)
\* an UPDATE that moves a record to a new id leaves room for one id above
\* those the inserts assign
IdentityIds == 1 .. MaxInserts + 1

\* created_at = ? binds any timestamp
Timestamps == 0 .. MaxInserts

\* update_sale_record(record_id, id=k), (record_id, created_at=t),
\* (record_id, sales=2)
IdentityUpdates ==
    {"id" :> k : k \in IdentityIds}
    \cup {"created_at" :> t : t \in Timestamps}
    \cup {"sales" :> 2}

\* a valid sale: product "x", customer "x", sales 1, profit 1, one unit
AddValidSale ==
    /\ NextRowId(table, seq) <= MaxInserts
    /\ \E d \in OrderDates : add_sale_record(d, <<120>>, <<120>>, 1, 1, 2, FALSE)
    /\ UNCHANGED entryVars

DeleteAnyId ==
    /\ \E id \in IdentityIds : delete_sale_record(id, FALSE)
    /\ UNCHANGED entryVars

UpdateAnyColumn ==
    /\ \E id \in IdentityIds, u \in IdentityUpdates : update_sale_record(id, u, FALSE)
    /\ UNCHANGED entryVars

NextUpdate == AddValidSale \/ DeleteAnyId \/ UpdateAnyColumn

SpecUpdate == Init /\ [][NextUpdate]_vars

\* the <<id, created_at>> pairs of the stored records
Identity(rows) == {<<r.id, r.created_at>> : r \in rows}

\* a delete leaves the remaining records their id and created_at; an insert
\* or an update leaves them to every record
IdentityKept ==
    IF result'.op = "delete"
    THEN Identity(table') \subseteq Identity(table)
    ELSE Identity(table) \subseteq Identity(table')

\* C13: no store operation changes the id or the created_at of a record:
\* every record present before and after a call of add_sale_record,
\* delete_sale_record or update_sale_record (with any field names in its
\* updates) has the same id and created_at.
C13_IdentityImmutable == [][IdentityKept]_vars

(***************************************************************************)
(* Properties of the analytics page when the store cannot be read          *)
(***************************************************************************)
\* a run of the script in which get_all_sales catches an exception of the
\* read (database.py:96-98); the sidebar then draws no widget
ReadFails == Render(<<>>, All, "Monthly", 0, 0, TRUE)

\* the outcomes of a run that found nothing to report
NoDataOutcomes == {"no_data", "no_match"}

\* C14: when reading the record store fails, the reporting pass ends in a
\* failure outcome distinguishable from the "no data" outcome of a readable
\* but empty store (or of filters that match nothing).  Stated of a store
\* that holds records, where only the failure can have emptied the frame.
C14_ReadFailureDistinct ==
    [][(table # {} /\ ReadFails) => outcome' \notin NoDataOutcomes]_vars

(***************************************************************************)
(* Specification of the trend table over dates around the turn of a year   *)
(***************************************************************************)
\* 2020-12-28 and 2021-01-01 lie in ISO week 53 of 2020, 2021-01-04 in week
\* 1, 2021-02-01 and 2022-01-31 in week 5 of their years, 2021-04-01 in the
\* second quarter, 2024-12-23 in week 52 and 2024-12-30 in week 1 of 2025
TrendDates ==
    <<<<2020, 12, 28>>, <<2021, 1, 1>>, <<2021, 1, 4>>, <<2021, 2, 1>>,
      <<2021, 4, 1>>, <<2022, 1, 31>>, <<2024, 12, 23>>, <<2024, 12, 30>>>>

\* record i sells for 2^(i-1), so that a sum of sales tells which records
\* it adds up
TrendRow(i, d) == Row(i, d, <<120>>, <<97>>, 2 ^ (i - 1), 0, 1, 0)

\* stores of 1 .. MaxRows records with any of the dates
TrendTables ==
    UNION {{{TrendRow(i, TrendDates[f[i]]) : i \in 1 .. n} :
               f \in [1 .. n -> 1 .. Len(TrendDates)]} :
           n \in 1 .. MaxRows}

InitTrend == (\E rows \in TrendTables : StoreHolds(rows)) /\ PageInit

\* one run with the widgets as the page first draws them, but for the
\* analysis period
RenderTrend ==
    /\ outcome = "not_run"
    /\ \E period \in TimePeriods :
        LET df_all == get_all_sales(table, FALSE)
        IN  Render(<<MinDate(df_all), MaxDate(df_all)>>, All, period, 0, 0, FALSE)

NextTrend == RenderTrend

SpecTrend == InitTrend /\ [][NextTrend]_vars

(***************************************************************************)
(* Properties of the period keys                                           *)
(***************************************************************************)
\* the summed sales of the records of the Filtered View at the positions S
RECURSIVE SalesOver(_)
SalesOver(S) ==
    IF S = {} THEN 0
    ELSE LET j == CHOOSE x \in S : TRUE
         IN  df[j].sales + SalesOver(S \ {j})

\* keys[j] is a bucket for record j of the Filtered View: the trend table
\* has one row for each bucket, under the bucket as its key, and the row
\* sums the sales of all the records of that bucket
BucketedBy(keys) ==
    /\ KeySet(trend_data) = {keys[j] : j \in DOMAIN keys}
    /\ Len(trend_data) = Cardinality(KeySet(trend_data))
    /\ \A i \in 1 .. Len(trend_data) :
           trend_data[i].sales =
               SalesOver({j \in DOMAIN keys : keys[j] = trend_data[i].key})

\* C15: under Weekly granularity the bucket key is the ISO week number of
\* the date (1..53) and under Quarterly the calendar quarter (1..4), both
\* without the year, so that records of the Filtered View with the same week
\* number (resp. quarter) are summed into one row even when their years
\* differ; under Monthly and Yearly granularity records of different years
\* never share a row.
C15_WeekAndQuarterKeysIgnoreYear ==
    Computed =>
        /\ time_period = "Weekly" =>
               /\ KeySet(trend_data) \subseteq {<<w>> : w \in 1 .. 53}
               /\ BucketedBy([j \in 1 .. Len(df) |-> <<IsoWeek(df[j].order_date)>>])
        /\ time_period = "Quarterly" =>
               /\ KeySet(trend_data) \subseteq {<<q>> : q \in 1 .. 4}
               /\ BucketedBy([j \in 1 .. Len(df) |-> <<Quarter(df[j].order_date)>>])
        /\ time_period = "Monthly" =>
               BucketedBy([j \in 1 .. Len(df) |->
                              <<df[j].order_date[1], df[j].order_date[2]>>])
        /\ time_period = "Yearly" =>
               BucketedBy([j \in 1 .. Len(df) |-> <<df[j].order_date[1]>>])

\* two records of different years, both of week 5, make one weekly row
C15_Witness ==
    /\ outcome = "rendered"
    /\ time_period = "Weekly"
    /\ Len(df) = 2
    /\ df[1].order_date[1] # df[2].order_date[1]
    /\ Len(trend_data) = 1
    /\ trend_data[1].key = <<5>>
    /\ trend_data[1].sales = 3

\* the position of the trend row that counts record j of the Filtered View
TrendRowOf(j) ==
    CHOOSE i \in 1 .. Len(trend_data) :
        trend_data[i].key = PeriodKey(time_period, df[j])

\* C16: for every granularity and any two dates d1 <= d2 of the same
\* calendar year, bucket_key(d1) <= bucket_key(d2), so that the trend rows,
\* sorted by bucket key, are in chronological order, the first and last days
\* of a year included.
C16_KeysChronologicalWithinYear ==
    Computed =>
        \A a, b \in 1 .. Len(df) :
            ( /\ df[a].order_date[1] = df[b].order_date[1]
              /\ LexLeq(df[a].order_date, df[b].order_date) )
                => /\ LexLeq(PeriodKey(time_period, df[a]), PeriodKey(time_period, df[b]))
                   /\ TrendRowOf(a) <= TrendRowOf(b)

(***************************************************************************)
(* One run of the data-entry script (data_entry.py:61-301).  Streamlit     *)
(* runs the script from the top after every click, and st.button returns   *)
(* True only in the run its own click caused: pressed names that button    *)
(* ("submit" for the form's button), "none" when the run has another cause *)
(***************************************************************************)
\* the checks of the form handler (data_entry.py:183-188)
FormOk(product, customer, sales, profit) ==
    /\ ~Falsy(Strip(product))
    /\ ~Falsy(Strip(customer))
    /\ profit <= sales

\* data_entry.py:281-282: the body of `if st.button("Delete Record")`
\* runs, and with it the confirmation expander is drawn
ConfirmShown(pressed, rid) == pressed = "delete_btn" /\ rid > 0

\* data_entry.py:289-290: inside that body, st.button("Yes, Delete It")
\* returns True
DeleteCalled(pressed, rid) == ConfirmShown(pressed, rid) /\ pressed = "yes"

\* the delete section as a run without a pressed delete button leaves it
DeleteButtons(frame) == IF frame = <<>> THEN {} ELSE {"delete_btn"}

\* the inputs of add_sale_form; quantity in whole units
Form(order_date, product, customer, sales, profit, quantity) ==
    [order_date |-> order_date, product |-> product, customer |-> customer,
     sales |-> sales, profit |-> profit, quantity |-> quantity]

\* form: the inputs of add_sale_form; rid: the value of the record id input
\* in this run; readError, dbError: the read of line 226 or the store call
\* raises
EntryRun(pressed, form, rid, readError, dbError) ==
    IF pressed = "submit" /\ FormOk(form.product, form.customer, form.sales, form.profit)
    THEN /\ add_sale_record(form.order_date, form.product, form.customer,
                            form.sales, form.profit, 2 * form.quantity, dbError)
         /\ buttons' = DeleteButtons(get_all_sales(table', readError))
         \* a number input with another max_value is a new widget, at its
         \* default min_value
         /\ record_id_input' =
                IF get_all_sales(table', readError) = <<>> \/ table' # table
                THEN 1 ELSE rid
         /\ notice' = "none"
         /\ UNCHANGED delete_record_id
    ELSE IF get_all_sales(table, readError) = <<>>
    THEN /\ buttons' = {}
         /\ record_id_input' = 1
         /\ notice' = "none"
         /\ UNCHANGED <<storeVars, pageVars, delete_record_id>>
    ELSE IF DeleteCalled(pressed, rid)
    THEN /\ delete_sale_record(rid, dbError)
         /\ IF result'.ok
            \* st.rerun(): the script runs once more, no button pressed
            THEN /\ delete_record_id' = rid
                 /\ buttons' = DeleteButtons(get_all_sales(table', readError))
                 /\ record_id_input' = 1
                 /\ notice' = "none"
            ELSE /\ buttons' = {"delete_btn", "yes", "cancel"}
                 /\ record_id_input' = rid
                 /\ notice' = "failed"
                 /\ UNCHANGED delete_record_id
    ELSE /\ record_id_input' = rid
         /\ IF ConfirmShown(pressed, rid)
            THEN /\ buttons' = {"delete_btn", "yes", "cancel"}
                 /\ notice' = IF pressed = "cancel" THEN "cancelled" ELSE "confirm"
            ELSE /\ buttons' = {"delete_btn"}
                 /\ notice' = "none"
         /\ UNCHANGED <<storeVars, pageVars, delete_record_id>>

\* a run not caused by the form: its inputs hold their defaults
Rerun(pressed, rid, readError, dbError) ==
    EntryRun(pressed, Form(<<2024, 1, 1>>, <<>>, <<>>, 0, 0, 1), rid, readError, dbError)

(***************************************************************************)
(* Specification of the data-entry page: what its user can do              *)
(***************************************************************************)
\* " ", "x"
FormProducts == {<<32>>, <<120>>}

\* "x", "y"
FormCustomers == {<<120>>, <<121>>}

\* <<sales, profit>>
FormAmounts == {<<1, 1>>, <<2, 1>>, <<1, 2>>}

\* the page is opened or refreshed
LoadPage == \E readError \in BOOLEAN : Rerun("none", record_id_input, readError, FALSE)

SubmitForm ==
    /\ NextRowId(table, seq) <= MaxInserts
    /\ \E d \in OrderDates, p \in FormProducts, c \in FormCustomers,
          a \in FormAmounts, dbError \in BOOLEAN :
           EntryRun("submit", Form(d, p, c, a[1], a[2], 1), record_id_input,
                    FALSE, dbError)

\* another id is typed into the input: 1 .. int(df['id'].max())
SetRecordId ==
    /\ buttons # {}
    /\ \E v \in 1 .. SetMax(Ids(table)) :
           /\ v # record_id_input
           /\ Rerun("none", v, FALSE, FALSE)

ClickDelete ==
    /\ "delete_btn" \in buttons
    /\ \E readError \in BOOLEAN : Rerun("delete_btn", record_id_input, readError, FALSE)

ClickYes ==
    /\ "yes" \in buttons
    /\ \E dbError \in BOOLEAN : Rerun("yes", record_id_input, FALSE, dbError)

ClickCancel ==
    /\ "cancel" \in buttons
    /\ Rerun("cancel", record_id_input, FALSE, FALSE)

NextEntry ==
    LoadPage \/ SubmitForm \/ SetRecordId \/ ClickDelete \/ ClickYes \/ ClickCancel

SpecEntry == Init /\ [][NextEntry]_vars

\* C17: after the user has clicked "Delete Record" for the id of a stored
\* record (the confirmation is on the page) a click on "Yes, Delete It"
\* calls delete_sale_record with that id and removes the record; a click
\* on "Cancel" leaves the store unchanged.
C17_ConfirmedDeleteRemoves ==
    [][ /\ ( /\ "yes" \in buttons
             /\ record_id_input \in Ids(table)
             /\ Rerun("yes", record_id_input, FALSE, FALSE) )
               => /\ result' = Ret("delete", TRUE, "")
                  /\ table' = table \ Stored(record_id_input)
        /\ ( /\ "cancel" \in buttons
             /\ Rerun("cancel", record_id_input, FALSE, FALSE) )
               => table' = table ]_vars

====
